---- MODULE Spec2Model ----
(***************************************************************************)
(* Workflow execution engine of Workflow_OS (backend/server.py,            *)
(* backend/enterprise_endpoints.py): one task record driven through a      *)
(* workflow definition by start / progress / approve_step / rewind, and    *)
(* the resilient node executor reached through the manual retry endpoint.  *)
(* Timestamps (started_at, updated_at, ...) carry no control flow and are  *)
(* left out of the records.                                                *)
(***************************************************************************)
EXTENDS Integers, Sequences, FiniteSets, TLC

VARIABLES task, exec, result, calls, sink

vars == <<task, exec, result, calls, sink>>

\* Python None / an absent key.
NoValue == "none"

----------------------------------------------------------------------------
\* Bounds of the model.

\* Most step_history rows a task record holds, the rows kept inside the
\* snapshots of rewind_history included.
MaxHistory == 4

\* Largest retry_policy.max_attempts a node is given.
MaxAttempts == 3

----------------------------------------------------------------------------
\* Data drawn by the operations.

Users == {"u1", "u2"}

ApprovalActions == {"approve", "reject"}

EmptyMap == [k \in {} |-> NoValue]

\* Merge, with the left operand winning on a shared key.
MergeDefaultsWin(a, b) ==
    [k \in (DOMAIN a) \cup (DOMAIN b) |-> IF k \in DOMAIN a THEN a[k] ELSE b[k]]

\* {**a, **b}
Merge(a, b) ==
    [k \in (DOMAIN a) \cup (DOMAIN b) |-> IF k \in DOMAIN b THEN b[k] ELSE a[k]]

Node(id, type, label, route) ==
    [id |-> id, type |-> type, label |-> label, on_error_next_node |-> route]

Edge(s, t) == [source |-> s, target |-> t]

\* A condition node: data.condition = "<variable> > <greater_than>".
ConditionNode(id, label, variable, greater_than) ==
    [ id |-> id, type |-> "condition", label |-> label,
      on_error_next_node |-> NoValue,
      condition |-> [variable |-> variable, greater_than |-> greater_than] ]

\* An edge with the label the designer gave it.
LabelledEdge(s, t, label) == [source |-> s, target |-> t, label |-> label]

\* The workflow definition store (db.workflows), read-only for the engine.
Workflows ==
    [ wfA |-> [ nodes |-> << Node("n1", "task", "Draft", NoValue),
                             Node("a1", "approval", "Review", NoValue),
                             Node("n2", "task", "Publish", NoValue) >>,
                edges |-> << Edge("n1", "a1"), Edge("a1", "n2") >>,
                variables |-> ("amount" :> 100) ],
      wfB |-> [ nodes |-> << Node("n1", "task", "Draft", NoValue),
                             Node("a2", "approval", "Sign-off", NoValue) >>,
                edges |-> << Edge("n1", "a2") >>,
                variables |-> EmptyMap ],
      wfC |-> [ nodes |-> << Node("n1", "task", "Draft", NoValue),
                             Node("w1", "webhook_action", "Notify", NoValue),
                             Node("w2", "ai_worker", "Summarise", "n1") >>,
                edges |-> << Edge("n1", "w1"), Edge("w1", "w2") >>,
                variables |-> EmptyMap ],
      \* two approvals in a ring: every node has an incoming edge, none is a task
      wfD |-> [ nodes |-> << Node("a3", "approval", "First check", NoValue),
                             Node("a4", "approval", "Second check", NoValue) >>,
                edges |-> << Edge("a3", "a4"), Edge("a4", "a3") >>,
                variables |-> EmptyMap ],
      \* a definition saved with no nodes
      wfE |-> [ nodes |-> << >>, edges |-> << >>, variables |-> EmptyMap ],
      \* two tasks in a line
      wfL |-> [ nodes |-> << Node("n1", "task", "Start Task", NoValue),
                             Node("n2", "task", "End Task", NoValue) >>,
                edges |-> << Edge("n1", "n2") >>,
                variables |-> EmptyMap ],
      \* amount > 5000 ?  with the Yes edge listed first
      wfY |-> [ nodes |-> << Node("n1", "task", "Draft", NoValue),
                             ConditionNode("c1", "Large?", "amount", 5000),
                             Node("y1", "task", "Escalate", NoValue),
                             Node("x1", "task", "File", NoValue) >>,
                edges |-> << Edge("n1", "c1"),
                             LabelledEdge("c1", "y1", "Yes"),
                             LabelledEdge("c1", "x1", "No") >>,
                variables |-> ("amount" :> 100) ],
      \* the same with the No edge listed first
      wfN |-> [ nodes |-> << Node("n1", "task", "Draft", NoValue),
                             ConditionNode("c1", "Large?", "amount", 5000),
                             Node("y1", "task", "Escalate", NoValue),
                             Node("x1", "task", "File", NoValue) >>,
                edges |-> << Edge("n1", "c1"),
                             LabelledEdge("c1", "x1", "no"),
                             LabelledEdge("c1", "y1", "yes") >>,
                variables |-> ("amount" :> 100) ],
      \* an edge whose target is not among the nodes
      wfU |-> [ nodes |-> << Node("n1", "task", "Draft", NoValue) >>,
                edges |-> << Edge("n1", "ghost") >>,
                variables |-> EmptyMap ],
      \* listed out of order: an approval with an incoming edge first, then
      \* a task with an incoming edge, then the task nothing leads to
      wfT |-> [ nodes |-> << Node("a5", "approval", "Review", NoValue),
                             Node("n1", "task", "Draft", NoValue),
                             Node("n3", "task", "Collect", NoValue) >>,
                edges |-> << Edge("n3", "n1"), Edge("n1", "a5") >>,
                variables |-> EmptyMap ],
      \* a webhook_action that nothing leads to, listed before a task
      wfW |-> [ nodes |-> << Node("w3", "webhook_action", "Fetch", NoValue),
                             Node("n1", "task", "Draft", NoValue) >>,
                edges |-> << Edge("w3", "n1") >>,
                variables |-> EmptyMap ] ]

WorkflowIds == DOMAIN Workflows

\* A workflow id with no definition behind it.
MissingWorkflow == "wfX"

\* initial_variables handed to start_workflow.
InitialVariables == { EmptyMap, ("amount" :> 6000) }

----------------------------------------------------------------------------
\* The task record (db.tasks) as Task() constructs it.

NewWorkflowState ==
    [ current_step      |-> NoValue,
      step_history      |-> << >>,
      pending_approvals |-> << >>,
      completed_steps   |-> << >>,
      variables         |-> EmptyMap,
      rewind_history    |-> << >> ]

NewTask ==
    [ exists         |-> TRUE,
      status         |-> "new",
      workflow_id    |-> NoValue,
      workflow_state |-> NewWorkflowState ]

NoTask == [NewTask EXCEPT !.exists = FALSE]

HistoryRow(step_id, step_name, status, by) ==
    [step_id |-> step_id, step_name |-> step_name, status |-> status, by |-> by]

\* What the last handler step returned or raised.
Result(op, outcome) == [op |-> op, outcome |-> outcome]

\* log_audit, with a failed insert passed on to the caller.
LogAuditRaises(s) == IF s = "up" THEN "written" ELSE "raised"

\* log_audit: the insert into audit_logs is tried, and when it fails the
\* error is logged locally and the call returns all the same.
LogAudit(s) == IF s = "up" THEN "written" ELSE "dropped"

\* How a handler ends that awaits log_audit before it returns outcome: an
\* exception out of log_audit would leave the handler in its place.
Audited(outcome, s) == IF LogAudit(s) = "raised" THEN "AuditError" ELSE outcome

\* What execute_node_with_resilience handed back: a result dict, an
\* HTTPException (Suspended), or nothing yet.
Returned(outcome, error_route, error) ==
    [outcome |-> outcome, error_route |-> error_route, error |-> error]

\* One progress_workflow call in flight: who made it, where it stands
\* (invoked, read, done), the task document its find_one returned (seen) and
\* how it ended.
Call(user, pc, seen, outcome) ==
    [op |-> "progress", user |-> user, pc |-> pc, seen |-> seen, outcome |-> outcome]

\* No request in flight; base is the record as it stood when the requests
\* in flight were made.
NoCalls == [base |-> NoTask, c |-> << >>]

\* One run of execute_node_with_resilience: its node, the retry policy it
\* read, the attempt counter, the outcome of each attempt made (log), the
\* sleeps taken (waits) and where the run stands (pc).
IdleExec ==
    [ pc |-> "idle", node |-> NoValue, type |-> NoValue,
      on_error_next_node |-> NoValue, max_attempts |-> 0, delay_seconds |-> 0,
      backoff |-> FALSE, attempt |-> 0, log |-> << >>, waits |-> << >>,
      returned |-> Returned("none", NoValue, NoValue) ]

Init ==
    /\ task = NoTask
    /\ exec = IdleExec
    /\ result = Result("none", "none")
    /\ calls = NoCalls
    /\ sink = "up"

----------------------------------------------------------------------------
\* POST /tasks without a workflow_id: inserts the default record.
CreateTask(user) ==
    /\ ~task.exists
    /\ task' = NewTask
    /\ result' = Result("create_task", Audited("ok", sink))
    /\ UNCHANGED <<exec, calls, sink>>

----------------------------------------------------------------------------
\* start_workflow

Incoming(wf) == { wf.edges[i].target : i \in 1..Len(wf.edges) }

\* Qualifies, by the absence of an incoming edge alone.
QualifiesNoIncoming(wf, n) == n.id \notin Incoming(wf)

Qualifies(wf, n) == n.id \notin Incoming(wf) \/ n.type = "task"

QualifyingIndexes(wf) == { i \in 1..Len(wf.nodes) : Qualifies(wf, wf.nodes[i]) }

Min(S) == CHOOSE x \in S : \A y \in S : x <= y

\* first_node = None / next_node = None
NoNode == Node(NoValue, NoValue, NoValue, NoValue)

\* FirstNode, falling back on the first node when none qualifies.
FirstNodeAny(wf) ==
    IF wf.nodes = << >> THEN NoNode
    ELSE IF QualifyingIndexes(wf) = {} THEN wf.nodes[1]
    ELSE wf.nodes[Min(QualifyingIndexes(wf))]

\* The first qualifying node in definition order, NoNode when there is none.
FirstNode(wf) ==
    IF QualifyingIndexes(wf) = {} THEN NoNode
    ELSE wf.nodes[Min(QualifyingIndexes(wf))]

StartedState(wf, first_node, user, initial_variables) ==
    [ current_step      |-> first_node.id,
      step_history      |-> << HistoryRow(first_node.id, first_node.label, "started", user) >>,
      pending_approvals |-> << >>,
      completed_steps   |-> << >>,
      variables         |-> Merge(wf.variables, initial_variables),
      rewind_history    |-> << >> ]

\* Restart, with the $set reaching only the keys start_workflow builds and
\* the rewind_history of the stored workflow_state surviving.
RestartKeepingRewinds(t, workflow_id, workflow_state) ==
    [ t EXCEPT
        !.workflow_id = workflow_id,
        !.workflow_state =
            [workflow_state EXCEPT !.rewind_history = t.workflow_state.rewind_history],
        !.status = "in_progress" ]

\* The $set of start_workflow: workflow_id, the whole workflow_state and
\* status are replaced.
Restart(t, workflow_id, workflow_state) ==
    [ t EXCEPT
        !.workflow_id = workflow_id,
        !.workflow_state = workflow_state,
        !.status = "in_progress" ]

StartWorkflow(workflow_id, user, initial_variables) ==
    /\ UNCHANGED <<exec, calls, sink>>
    /\ IF workflow_id \notin WorkflowIds
       THEN /\ result' = Result("start", "NotFound")
            /\ UNCHANGED task
       ELSE LET wf == Workflows[workflow_id]
                first_node == FirstNode(wf)
            IN  IF first_node = NoNode
                THEN /\ result' = Result("start", "InvalidDefinition")
                     /\ UNCHANGED task
                ELSE /\ result' = Result("start", Audited("ok", sink))
                     \* update_one({"id": task_id}, ...) matches nothing when
                     \* there is no record
                     /\ task' = IF task.exists
                                THEN Restart(task, workflow_id,
                                             StartedState(wf, first_node, user,
                                                          initial_variables))
                                ELSE task

----------------------------------------------------------------------------
\* progress_workflow

OutgoingIndexes(wf, step_id) ==
    { i \in 1..Len(wf.edges) : wf.edges[i].source = step_id }

\* Target of the first edge leaving step_id, NoValue when there is none.
NextStepId(wf, step_id) ==
    IF OutgoingIndexes(wf, step_id) = {} THEN NoValue
    ELSE wf.edges[Min(OutgoingIndexes(wf, step_id))].target

NodeIndexes(wf, node_id) ==
    { i \in 1..Len(wf.nodes) : wf.nodes[i].id = node_id }

\* The first node carrying node_id, NoNode when the definition has none.
FindNode(wf, node_id) ==
    IF NodeIndexes(wf, node_id) = {} THEN NoNode
    ELSE wf.nodes[Min(NodeIndexes(wf, node_id))]

\* Approval, with the entry left unassigned.
ApprovalUnassigned(node, user) ==
    [step_id |-> node.id, step_name |-> node.label, assigned_to |-> NoValue]

Approval(node, user) ==
    [step_id |-> node.id, step_name |-> node.label, assigned_to |-> user]

Outcome(t, outcome) == [task |-> t, outcome |-> outcome]

\* NoActiveWorkflow, telling only a workflow that was never started.
NoActiveWorkflowUnstarted(workflow_state) ==
    workflow_state.current_step = NoValue /\ workflow_state.step_history = << >>

\* not workflow_state or not workflow_state.get("current_step")
NoActiveWorkflow(workflow_state) == workflow_state.current_step = NoValue

\* Complete, with current_step left standing.
CompleteKeepingStep(t) == [t EXCEPT !.status = "completed"]

\* The $set of the branch with no next step.
Complete(t) ==
    [t EXCEPT !.status = "completed", !.workflow_state.current_step = NoValue]

\* StartedRow, with the status of the step left out.
StartedRowUnmarked(next_step_id, next_node, user) ==
    HistoryRow(next_step_id,
               IF next_node # NoNode THEN next_node.label ELSE "Unknown",
               NoValue, user)

\* The step_history row pushed for an ordinary next step.
StartedRow(next_step_id, next_node, user) ==
    HistoryRow(next_step_id,
               IF next_node # NoNode THEN next_node.label ELSE "Unknown",
               "started", user)

\* The record progress_workflow leaves behind and how the call ends, for a
\* call whose find_one returned the document seen and whose update_one
\* meets the document t: every decision is taken on seen, $set overwrites
\* and $push appends to what t holds.
ProgressUpdate(t, seen, user) ==
    IF ~seen.exists THEN Outcome(t, "NotFound")
    ELSE IF NoActiveWorkflow(seen.workflow_state)
    THEN Outcome(t, "NoActiveWorkflow")
    ELSE
      LET ws == t.workflow_state
          current_step_id == seen.workflow_state.current_step
          wf == Workflows[seen.workflow_id]
          next_step_id == NextStepId(wf, current_step_id)
          next_node == FindNode(wf, next_step_id)
      IN  IF next_step_id = NoValue
          THEN Outcome(Complete(t), "completed")
          ELSE IF next_node # NoNode /\ next_node.type = "approval"
          THEN Outcome([t EXCEPT
                          !.workflow_state.current_step = next_step_id,
                          !.workflow_state.pending_approvals =
                              Append(ws.pending_approvals, Approval(next_node, user)),
                          !.workflow_state.step_history =
                              Append(ws.step_history,
                                     HistoryRow(next_step_id, next_node.label,
                                                "pending_approval", NoValue))],
                       "ok")
          ELSE Outcome([t EXCEPT
                          !.workflow_state.current_step = next_step_id,
                          !.workflow_state.step_history =
                              Append(ws.step_history,
                                     StartedRow(next_step_id, next_node, user)),
                          !.workflow_state.completed_steps =
                              Append(ws.completed_steps, current_step_id)],
                       "ok")

\* progress_workflow with nothing coming between its read and its write.
ProgressWorkflow(t, user) == ProgressUpdate(t, t, user)

\* POST /tasks/{task_id}/workflow/progress
Progress(user) ==
    LET r == ProgressWorkflow(task, user)
    IN  /\ task' = r.task
        /\ result' = Result("progress",
                            IF r.outcome \in {"ok", "completed"}
                            THEN Audited(r.outcome, sink) ELSE r.outcome)
        /\ UNCHANGED <<exec, calls, sink>>

----------------------------------------------------------------------------
\* approve_step

\* ApprovalMatches, with the test of assigned_to dropped.
ApprovalMatchesStepOnly(appr, step_id, user) == appr.step_id = step_id

ApprovalMatches(appr, step_id, user) ==
    appr.step_id = step_id /\ appr.assigned_to = user

MatchingIndexes(pending_approvals, step_id, user) ==
    { i \in 1..Len(pending_approvals) :
          ApprovalMatches(pending_approvals[i], step_id, user) }

\* $pull {"step_id": step_id}: every entry of that step goes.
PullStep(pending_approvals, step_id) ==
    LET Keep(appr) == appr.step_id # step_id
    IN  SelectSeq(pending_approvals, Keep)

\* The update_one of approve_step on the document t: $pull of the step's
\* entries and $push of the row of the approval found.
Resolve(t, approval, step_id, user, action) ==
    [t EXCEPT
       !.workflow_state.pending_approvals =
           PullStep(t.workflow_state.pending_approvals, step_id),
       !.workflow_state.step_history =
           Append(t.workflow_state.step_history,
                  HistoryRow(step_id, approval.step_name, action, user))]

ApproveStep(step_id, user, action) ==
    /\ UNCHANGED <<exec, calls, sink>>
    /\ IF ~task.exists
       THEN /\ result' = Result("approve_step", "NotFound")
            /\ UNCHANGED task
       ELSE
         LET ws == task.workflow_state
             found == MatchingIndexes(ws.pending_approvals, step_id, user)
         IN  IF found = {}
             THEN /\ result' = Result("approve_step", "ApprovalNotFound")
                  /\ UNCHANGED task
             ELSE
               LET approval == ws.pending_approvals[Min(found)]
                   updated == Resolve(task, approval, step_id, user, action)
                   r == ProgressWorkflow(updated, user)
               IN  IF action = "approve"
                   THEN \* progress_workflow raising ends approve_step with that
                        \* error, after the update above was written
                        /\ task' = r.task
                        /\ result' = Result("approve_step",
                                            IF r.outcome \in {"ok", "completed"}
                                            THEN Audited("ok", sink) ELSE r.outcome)
                   ELSE /\ task' = updated
                        /\ result' = Result("approve_step", Audited("ok", sink))

----------------------------------------------------------------------------
\* rewind_workflow of the engine (POST /tasks/{task_id}/workflow/rewind)

Reasons == {"fix"}

TargetIndexes(step_history, target_step_id) ==
    { i \in 1..Len(step_history) : step_history[i].step_id = target_step_id }

\* The record the engine's rewind leaves behind and how the call ends.
RewindEngine(t, target_step_id, user, reason) ==
    IF ~t.exists THEN Outcome(t, "NotFound")
    ELSE
      LET ws == t.workflow_state
          found == TargetIndexes(ws.step_history, target_step_id)
      IN  IF found = {}
          THEN Outcome(t, "TargetStepNotFound")
          ELSE
            LET target_step == ws.step_history[Min(found)]
            IN  Outcome([t EXCEPT
                           !.workflow_state.current_step = target_step_id,
                           !.status = "in_progress",
                           !.workflow_state.step_history =
                               Append(ws.step_history,
                                      HistoryRow(target_step_id,
                                                 target_step.step_name,
                                                 "rewound", user))],
                        "ok")

RewindWorkflow(target_step_id, user, reason) ==
    LET r == RewindEngine(task, target_step_id, user, reason)
    IN  /\ task' = r.task
        /\ result' = Result("rewind",
                            IF r.outcome = "ok" THEN Audited("ok", sink) ELSE r.outcome)
        /\ UNCHANGED <<exec, calls, sink>>

----------------------------------------------------------------------------
\* rewind_workflow of enterprise_endpoints (POST /v1/workflows/{task_id}/rewind)

BackupState(ws, user, reason) ==
    [current_state |-> ws, rewound_by |-> user, reason |-> reason]

\* The record the /v1 rewind leaves behind and how the call ends.
RewindV1(t, target_step_id, user, reason) ==
    IF ~t.exists THEN Outcome(t, "NotFound")
    ELSE
      LET ws == t.workflow_state
          found == TargetIndexes(ws.step_history, target_step_id)
      IN  IF ws.step_history = << >>
          THEN Outcome(t, "NoHistory")
          ELSE IF found = {}
          THEN Outcome(t, "TargetStepNotFound")
          ELSE IF ws.completed_steps # << >>
          THEN \* s["step_id"] on an entry of completed_steps, which holds
               \* plain step ids: TypeError before anything is written
               Outcome(t, "TypeError")
          ELSE
            LET target_index == Min(found)
            IN  Outcome([t EXCEPT
                           !.status = "in_progress",
                           !.workflow_state =
                               [ current_step      |-> target_step_id,
                                 step_history      |->
                                     SubSeq(ws.step_history, 1, target_index),
                                 pending_approvals |-> << >>,
                                 completed_steps   |-> << >>,
                                 variables         |-> ws.variables,
                                 rewind_history    |->
                                     Append(ws.rewind_history,
                                            BackupState(ws, user, reason)) ]],
                        "ok")

RewindEndpoint(target_step_id, user, reason) ==
    LET r == RewindV1(task, target_step_id, user, reason)
    IN  /\ task' = r.task
        /\ result' = Result("rewind_v1",
                            IF r.outcome = "ok" THEN Audited("ok", sink) ELSE r.outcome)
        /\ UNCHANGED <<exec, calls, sink>>

----------------------------------------------------------------------------
\* execute_node_with_resilience, entered through retry_failed_node
\* (POST /v1/workflows/{workflow_id}/nodes/{node_id}/retry)

DefaultMaxAttempts == 3
DefaultDelaySeconds == 60
DefaultBackoff == TRUE

DelayChoices == {0, 10}

\* node.retry_policy: None, or the dict update_node_retry_policy stored.
NoPolicy == [given |-> FALSE, max_attempts |-> 0, delay_seconds |-> 0, backoff |-> FALSE]

RetryPolicies ==
    {NoPolicy} \cup
    [ given : {TRUE}, max_attempts : 0..MaxAttempts,
      delay_seconds : DelayChoices, backoff : BOOLEAN ]

\* What an attempt of a webhook_action or ai_worker node can raise.
Errors == {"HTTP 500", "timeout"}

SideEffectTypes == {"webhook_action", "ai_worker"}

\* WaitTime, with the exponent one too high.
WaitTimeDoubled(delay_seconds, backoff, attempt) ==
    delay_seconds * (IF backoff THEN 2 ^ attempt ELSE 1)

\* delay_seconds * (2 ** (attempt - 1) if backoff else 1)
WaitTime(delay_seconds, backoff, attempt) ==
    delay_seconds * (IF backoff THEN 2 ^ (attempt - 1) ELSE 1)

\* The reads of lines 306-310 and the first test of the while loop.
BeginExec(node, policy) ==
    LET max_attempts == IF policy.given THEN policy.max_attempts ELSE DefaultMaxAttempts
    IN  [ IdleExec EXCEPT
            !.pc = IF 1 <= max_attempts THEN "attempting" ELSE "done",
            !.node = node.id,
            !.type = node.type,
            !.on_error_next_node = node.on_error_next_node,
            !.max_attempts = max_attempts,
            !.delay_seconds = IF policy.given THEN policy.delay_seconds
                              ELSE DefaultDelaySeconds,
            !.backoff = IF policy.given THEN policy.backoff ELSE DefaultBackoff,
            !.attempt = 1 ]

RetryFailedNode(workflow_id, node_id, user, policy) ==
    /\ exec.pc \in {"idle", "done"}
    /\ UNCHANGED <<task, calls, sink>>
    /\ IF \/ ~task.exists
          \/ workflow_id \notin WorkflowIds
       THEN /\ result' = Result("retry_node", "NotFound")
            /\ UNCHANGED <<exec, calls, sink>>
       ELSE LET node == FindNode(Workflows[workflow_id], node_id)
            IN  IF node = NoNode
                THEN /\ result' = Result("retry_node", "NotFound")
                     /\ UNCHANGED <<exec, calls, sink>>
                ELSE /\ exec' = BeginExec(node, policy)
                     \* the loop body never runs: the function falls off its
                     \* end and the endpoint answers with result None
                     /\ result' = Result("retry_node",
                                         IF exec'.pc = "done" THEN "NoOutcome"
                                         ELSE "running")

\* AttemptSucceeds, with the loop going round after a success.
AttemptSucceedsRetries ==
    /\ exec.pc = "attempting"
    /\ exec' = [exec EXCEPT
                  !.pc = IF exec.attempt < exec.max_attempts THEN "sleeping" ELSE "done",
                  !.log = Append(exec.log, "ok"),
                  !.returned = Returned(Audited("Success", sink), NoValue, NoValue)]
    /\ result' = Result("execute", Audited("Success", sink))
    /\ UNCHANGED <<task, calls, sink>>

\* An attempt that returns: the run ends with its result.
AttemptSucceeds ==
    /\ exec.pc = "attempting"
    /\ exec' = [exec EXCEPT !.pc = "done",
                            !.log = Append(exec.log, "ok"),
                            !.returned = Returned(Audited("Success", sink), NoValue, NoValue)]
    /\ result' = Result("execute", Audited("Success", sink))
    /\ UNCHANGED <<task, calls, sink>>

\* Exhausted, with > for >=.
ExhaustedLate(attempt, max_attempts) == attempt > max_attempts

\* attempt >= max_attempts
Exhausted(attempt, max_attempts) == attempt >= max_attempts

\* HasErrorRoute, with the error path never taken.
HasErrorRouteNever(on_error_next_node) == FALSE

\* if node.on_error_next_node:
HasErrorRoute(on_error_next_node) == on_error_next_node # NoValue

\* An attempt that raises error_msg.
AttemptFails(error_msg) ==
    /\ exec.pc = "attempting"
    /\ exec.type \in SideEffectTypes
    /\ UNCHANGED <<calls, sink>>
    /\ IF Exhausted(exec.attempt, exec.max_attempts)
       THEN IF HasErrorRoute(exec.on_error_next_node)
            THEN /\ exec' = [exec EXCEPT
                               !.pc = "done",
                               !.log = Append(exec.log, error_msg),
                               !.returned = Returned(Audited("ErrorRouted", sink),
                                                     exec.on_error_next_node,
                                                     error_msg)]
                 /\ result' = Result("execute", Audited("ErrorRouted", sink))
                 /\ UNCHANGED task
            ELSE /\ exec' = [exec EXCEPT
                               !.pc = "done",
                               !.log = Append(exec.log, error_msg),
                               !.returned = Returned(Audited("Suspended", sink), NoValue, error_msg)]
                 /\ result' = Result("execute", Audited("Suspended", sink))
                 /\ task' = IF task.exists
                            THEN [task EXCEPT !.status = "suspended"]
                            ELSE task
       ELSE /\ exec' = [exec EXCEPT
                          !.pc = "sleeping",
                          !.log = Append(exec.log, error_msg),
                          !.waits = Append(exec.waits,
                                           WaitTime(exec.delay_seconds, exec.backoff,
                                                    exec.attempt))]
            /\ result' = Result("execute", Audited("retrying", sink))
            /\ UNCHANGED task

\* asyncio.sleep returns: attempt += 1 and the loop goes round.
Wake ==
    /\ exec.pc = "sleeping"
    /\ exec' = [exec EXCEPT
                  !.attempt = exec.attempt + 1,
                  !.pc = IF exec.attempt + 1 <= exec.max_attempts
                         THEN "attempting" ELSE "done"]
    /\ result' = Result("execute", "retrying")
    /\ UNCHANGED <<task, calls, sink>>

----------------------------------------------------------------------------
\* Steps an operation may name: the ids of the nodes of the task's
\* definition and one that no definition has.
StepIds ==
    (IF task.workflow_id \in WorkflowIds
     THEN { Workflows[task.workflow_id].nodes[i].id :
                i \in 1..Len(Workflows[task.workflow_id].nodes) }
     ELSE {}) \cup {"zz"}

RECURSIVE Rows(_)
RECURSIVE SnapshotRows(_)

\* step_history rows stored in a workflow_state, snapshots included.
Rows(ws) == Len(ws.step_history) + SnapshotRows(ws.rewind_history)

SnapshotRows(rewind_history) ==
    IF rewind_history = << >> THEN 0
    ELSE Rows(Head(rewind_history).current_state) + SnapshotRows(Tail(rewind_history))

\* The record stays within the bound of the model.
WithinBounds == Rows(task'.workflow_state) <= MaxHistory

\* The definitions that can be started, which the state machine runs on.
RunnableWorkflows == {"wfA", "wfB", "wfC"}

Next ==
    \/ \E u \in Users : CreateTask(u)
    \/ \E w \in RunnableWorkflows \cup {MissingWorkflow}, u \in Users, iv \in InitialVariables :
           StartWorkflow(w, u, iv)
    \/ \E u \in Users : Progress(u) /\ WithinBounds
    \/ \E s \in StepIds, u \in Users, a \in ApprovalActions :
           ApproveStep(s, u, a) /\ WithinBounds
    \/ \E s \in StepIds, u \in Users, r \in Reasons :
           RewindWorkflow(s, u, r) /\ WithinBounds
    \/ \E s \in StepIds, u \in Users, r \in Reasons :
           RewindEndpoint(s, u, r) /\ WithinBounds

Spec == Init /\ [][Next]_vars

\* The executor beside the state machine: the retry endpoint on the nodes of
\* one definition, under every retry policy, while the task is started and
\* progressed.
ExecutorWorkflows == {"wfC"}

NextExecutor ==
    \/ \E u \in Users : CreateTask(u)
    \/ \E w \in ExecutorWorkflows : StartWorkflow(w, "u1", EmptyMap)
    \/ Progress("u1") /\ WithinBounds
    \/ \E w \in ExecutorWorkflows, n \in StepIds, p \in RetryPolicies :
           RetryFailedNode(w, n, "u1", p)
    \/ AttemptSucceeds
    \/ \E e \in Errors : AttemptFails(e)
    \/ Wake

SpecExecutor == Init /\ [][NextExecutor]_vars

\* Start over every definition, runnable or not, and every caller and
\* initial_variables, on a task that one user moves on in between.
NextStart ==
    \/ CreateTask("u1")
    \/ \E w \in WorkflowIds \cup {MissingWorkflow}, u \in Users, iv \in InitialVariables :
           StartWorkflow(w, u, iv)
    \/ Progress("u1") /\ WithinBounds
    \/ \E s \in StepIds, a \in ApprovalActions :
           ApproveStep(s, "u1", a) /\ WithinBounds

SpecStart == Init /\ [][NextStart]_vars

\* Two progress requests on the same task at once.  Each handler runs up to
\* an await and then lets the other run: find_one of the task document is
\* one step (CallRead), update_one is the next (CallWrite), and the two
\* requests take their steps in any order.
ConcurrentWorkflows == {"wfA", "wfC"}

\* No request is between its read and its write.
Quiet == \A i \in DOMAIN calls.c : calls.c[i].pc = "done"

InvokePair(user1, user2) ==
    /\ Quiet
    /\ task.exists
    /\ calls' = [ base |-> task,
                  c    |-> << Call(user1, "invoked", NoTask, NoValue),
                              Call(user2, "invoked", NoTask, NoValue) >> ]
    /\ UNCHANGED <<task, exec, result, sink>>

\* task = await self.db.tasks.find_one({"id": task_id})
CallRead(i) ==
    /\ i \in DOMAIN calls.c
    /\ calls.c[i].pc = "invoked"
    /\ calls' = [calls EXCEPT !.c[i].pc = "read", !.c[i].seen = task]
    /\ UNCHANGED <<task, exec, result, sink>>

\* The rest of progress_workflow, down to its update_one.
CallWrite(i) ==
    /\ i \in DOMAIN calls.c
    /\ calls.c[i].pc = "read"
    /\ LET r == ProgressUpdate(task, calls.c[i].seen, calls.c[i].user)
       IN  /\ task' = r.task
           /\ calls' = [calls EXCEPT !.c[i].pc = "done", !.c[i].outcome = r.outcome]
           /\ result' = Result("progress",
                               IF r.outcome \in {"ok", "completed"}
                               THEN Audited(r.outcome, sink) ELSE r.outcome)
    /\ UNCHANGED <<exec, sink>>

NextConcurrent ==
    \/ CreateTask("u1")
    \/ \E w \in ConcurrentWorkflows : Quiet /\ StartWorkflow(w, "u1", EmptyMap)
    \/ Quiet /\ Progress("u1") /\ WithinBounds
    \/ \E u1 \in Users, u2 \in Users : InvokePair(u1, u2)
    \/ \E i \in 1..2 : CallRead(i)
    \/ \E i \in 1..2 : CallWrite(i) /\ WithinBounds

SpecConcurrent == Init /\ [][NextConcurrent]_vars

\* Two approve_step requests for the same pending approval at once, beside
\* the requests that run alone.  approve_step awaits four times: find_one
\* (ApprovalRead), update_one (ApprovalWrite) and, for an approve, the
\* find_one and the update_one of the progress_workflow it calls
\* (ApprovalProgressRead, ApprovalProgressWrite).
ApprovalWorkflows == {"wfA"}

\* One approve_step call in flight: the approval it names, where it stands
\* (invoked, matched, progressing, progress_read, done), the task document
\* its last find_one returned (seen) and how it ended.
ApprovalCall(step_id, user, action, pc, seen, outcome) ==
    [ op |-> "approve_step", step_id |-> step_id, user |-> user, action |-> action,
      pc |-> pc, seen |-> seen, outcome |-> outcome ]

InvokeApprovals(step_id, user, action) ==
    /\ Quiet
    /\ task.exists
    /\ \E i \in 1..Len(task.workflow_state.pending_approvals) :
          ApprovalMatches(task.workflow_state.pending_approvals[i], step_id, user)
    /\ calls' = [ base |-> task,
                  c    |-> << ApprovalCall(step_id, user, action, "invoked", NoTask, NoValue),
                              ApprovalCall(step_id, user, action, "invoked", NoTask, NoValue) >> ]
    /\ UNCHANGED <<task, exec, result, sink>>

\* find_one and the search of pending_approvals
ApprovalRead(i) ==
    /\ i \in DOMAIN calls.c
    /\ calls.c[i].pc = "invoked"
    /\ LET c == calls.c[i]
           found == IF task.exists
                    THEN MatchingIndexes(task.workflow_state.pending_approvals,
                                         c.step_id, c.user)
                    ELSE {}
       IN  IF ~task.exists
           THEN /\ calls' = [calls EXCEPT !.c[i].pc = "done", !.c[i].outcome = "NotFound"]
                /\ result' = Result("approve_step", "NotFound")
           ELSE IF found = {}
           THEN /\ calls' = [calls EXCEPT !.c[i].pc = "done",
                                          !.c[i].outcome = "ApprovalNotFound"]
                /\ result' = Result("approve_step", "ApprovalNotFound")
           ELSE /\ calls' = [calls EXCEPT !.c[i].pc = "matched", !.c[i].seen = task]
                /\ UNCHANGED result
    /\ UNCHANGED <<task, exec, sink>>

\* update_one with $pull and $push, on the document as it stands now
ApprovalWrite(i) ==
    /\ i \in DOMAIN calls.c
    /\ calls.c[i].pc = "matched"
    /\ LET c == calls.c[i]
           pending == c.seen.workflow_state.pending_approvals
           approval == pending[Min(MatchingIndexes(pending, c.step_id, c.user))]
       IN  /\ task' = Resolve(task, approval, c.step_id, c.user, c.action)
           /\ IF c.action = "approve"
              THEN /\ calls' = [calls EXCEPT !.c[i].pc = "progressing"]
                   /\ UNCHANGED result
              ELSE /\ calls' = [calls EXCEPT !.c[i].pc = "done", !.c[i].outcome = "ok"]
                   /\ result' = Result("approve_step", Audited("ok", sink))
    /\ UNCHANGED <<exec, sink>>

\* find_one of the progress_workflow called by approve_step
ApprovalProgressRead(i) ==
    /\ i \in DOMAIN calls.c
    /\ calls.c[i].pc = "progressing"
    /\ calls' = [calls EXCEPT !.c[i].pc = "progress_read", !.c[i].seen = task]
    /\ UNCHANGED <<task, exec, result, sink>>

\* The rest of that progress_workflow, and the return of approve_step
ApprovalProgressWrite(i) ==
    /\ i \in DOMAIN calls.c
    /\ calls.c[i].pc = "progress_read"
    /\ LET r == ProgressUpdate(task, calls.c[i].seen, calls.c[i].user)
           outcome == IF r.outcome \in {"ok", "completed"} THEN "ok" ELSE r.outcome
       IN  /\ task' = r.task
           /\ calls' = [calls EXCEPT !.c[i].pc = "done", !.c[i].outcome = outcome]
           /\ result' = Result("approve_step",
                               IF outcome = "ok" THEN Audited("ok", sink) ELSE outcome)
    /\ UNCHANGED <<exec, sink>>

\* One pair of requests a run, made on a record that the requests running
\* alone have brought to any state they can.  An approval consumes the
\* pending entries of its step, so the requests that resolve one need no
\* bound of their own; progress and rewind keep the record within the bound.
NextApprovals ==
    \/ CreateTask("u1")
    \/ \E w \in ApprovalWorkflows : calls = NoCalls /\ StartWorkflow(w, "u1", EmptyMap)
    \/ \E u \in Users : calls = NoCalls /\ Progress(u) /\ WithinBounds
    \/ \E s \in StepIds, u \in Users, r \in Reasons :
           calls = NoCalls /\ RewindWorkflow(s, u, r) /\ WithinBounds
    \/ \E s \in StepIds, u \in Users, a \in ApprovalActions :
           calls = NoCalls /\ ApproveStep(s, u, a)
    \/ \E s \in StepIds, u \in Users, a \in ApprovalActions :
           calls = NoCalls /\ InvokeApprovals(s, u, a)
    \/ \E i \in 1..2 : ApprovalRead(i)
    \/ \E i \in 1..2 : ApprovalWrite(i)
    \/ \E i \in 1..2 : ApprovalProgressRead(i)
    \/ \E i \in 1..2 : ApprovalProgressWrite(i)

SpecApprovals == Init /\ [][NextApprovals]_vars

\* The shapes a definition can take on the way from node to node: a gate
\* between two tasks, a line of two tasks, a condition with labelled
\* branches, an edge into nowhere.
RoutingWorkflows == {"wfA", "wfL", "wfY", "wfN", "wfU"}

NextRouting ==
    \/ CreateTask("u1")
    \/ \E w \in RoutingWorkflows, iv \in InitialVariables : StartWorkflow(w, "u1", iv)
    \/ Progress("u1") /\ WithinBounds
    \/ \E s \in StepIds, r \in Reasons : RewindWorkflow(s, "u1", r) /\ WithinBounds

SpecRouting == Init /\ [][NextRouting]_vars

\* The audit collection within reach or out of reach for a whole run, under
\* one user driving one task through the state machine and retrying the
\* nodes of one definition under a short retry policy.
AuditWorkflows == {"wfA"}

AuditPolicies ==
    { p \in RetryPolicies :
        p.given /\ p.max_attempts = 2 /\ p.delay_seconds = 0 /\ ~p.backoff }

InitAudit ==
    /\ task = NoTask
    /\ exec = IdleExec
    /\ result = Result("none", "none")
    /\ calls = NoCalls
    /\ sink \in {"up", "down"}

NextAudit ==
    \/ CreateTask("u1")
    \/ \E w \in AuditWorkflows : StartWorkflow(w, "u1", EmptyMap)
    \/ Progress("u1") /\ WithinBounds
    \/ \E s \in StepIds, a \in ApprovalActions :
           ApproveStep(s, "u1", a) /\ WithinBounds
    \/ \E s \in StepIds, r \in Reasons : RewindWorkflow(s, "u1", r) /\ WithinBounds
    \/ \E s \in StepIds, r \in Reasons : RewindEndpoint(s, "u1", r) /\ WithinBounds
    \/ \E w \in ExecutorWorkflows, n \in {"w1", "w2"}, p \in AuditPolicies :
           RetryFailedNode(w, n, "u1", p)
    \/ AttemptSucceeds
    \/ \E e \in Errors : AttemptFails(e)
    \/ Wake

SpecAudit == InitAudit /\ [][NextAudit]_vars

\* Start on a task whose workflow is already running: the task begins
\* started (create_task with a workflow_id starts it at once), is moved on by
\* one user, and is started again at any point.
RestartWorkflows == {"wfA", "wfB"}

InitRestart ==
    /\ task = Restart(NewTask, "wfA",
                      StartedState(Workflows["wfA"], FirstNode(Workflows["wfA"]),
                                   "u1", EmptyMap))
    /\ exec = IdleExec
    /\ result = Result("start", "ok")
    /\ calls = NoCalls
    /\ sink = "up"

NextRestart ==
    \/ \E w \in RestartWorkflows, iv \in InitialVariables : StartWorkflow(w, "u1", iv)
    \/ Progress("u1") /\ WithinBounds
    \/ \E s \in StepIds, a \in ApprovalActions :
           ApproveStep(s, "u1", a) /\ WithinBounds
    \/ \E s \in StepIds, r \in Reasons : RewindWorkflow(s, "u1", r) /\ WithinBounds
    \/ \E s \in StepIds, r \in Reasons : RewindEndpoint(s, "u1", r) /\ WithinBounds

SpecRestart == InitRestart /\ [][NextRestart]_vars

\* Inbound webhooks: receive_webhook (POST /webhooks/incoming/{trigger_id})
\* and webhook_listener (POST /v1/webhooks/{hook_id})

\* JSON values of a payload: objects and scalars.  Null is the None that
\* dict.get hands back for a missing key.
Null == [kind |-> "null"]
Scalar(v) == [kind |-> "scalar", v |-> v]
Dict(items) == [kind |-> "dict", items |-> items]

\* What a handler holds after an exception left its mapping loop.
Raised == [kind |-> "raised"]

\* A dotted source field, token by token: "data.customer.id".
Path(a, b, c) == << a, ".", b, ".", c >>

RECURSIVE Dotted(_)
\* The string the tokens spell.
Dotted(tokens) ==
    IF tokens = << >> THEN "" ELSE Head(tokens) \o Dotted(Tail(tokens))

RECURSIVE Split(_)
\* source_field.split('.')
Split(tokens) ==
    IF tokens = << >> THEN << "" >>
    ELSE LET rest == Split(Tail(tokens))
         IN  IF Head(tokens) = "."
             THEN << "" >> \o rest
             ELSE << Head(tokens) \o Head(rest) >> \o Tail(rest)

\* The webhook_triggers collection: the trigger of the enterprise test, on
\* a two-task workflow, and one that was switched off.
Trigger(is_active) ==
    [ name |-> "hook", workflow_id |-> "wfL", is_active |-> is_active,
      payload_mapping |->
          ("customer_id" :> Path("data", "customer", "id"))
          @@ ("order_amount" :> Path("data", "order", "total")) ]

Triggers == { Trigger(TRUE), Trigger(FALSE) }

\* Bodies a caller posts.
Payloads ==
    { Dict(("data" :> Dict(("customer" :> Dict(("id" :> Scalar("c42"))))
                           @@ ("order" :> Dict(("total" :> Scalar("99"))))))),
      Dict(("data" :> Dict(("customer" :> Dict(("id" :> Scalar("c42"))))))),
      Dict(("data" :> Scalar("flat"))),
      Dict(("customer_id" :> Scalar("c42"))),
      Dict(EmptyMap) }

RECURSIVE Walk(_, _)
\* The inner loop of receive_webhook: value.get(field, None) segment after
\* segment; .get on a value that is no dict raises AttributeError.
Walk(value, fields) ==
    IF fields = << >> THEN value
    ELSE IF value.kind # "dict" THEN Raised
    ELSE LET next == IF Head(fields) \in DOMAIN value.items
                     THEN value.items[Head(fields)] ELSE Null
         IN  IF next = Null THEN Null ELSE Walk(next, Tail(fields))

\* workflow_variables of receive_webhook, Raised when a lookup raised.
ReceivedVariables(payload_mapping, payload) ==
    LET Value(target_var) == Walk(payload, Split(payload_mapping[target_var]))
    IN  IF \E target_var \in DOMAIN payload_mapping : Value(target_var) = Raised
        THEN Raised
        ELSE [ target_var \in { t \in DOMAIN payload_mapping : Value(t) # Null }
                 |-> Value(target_var) ]

\* workflow_variables of webhook_listener: the keys of payload_mapping are
\* looked up in the payload as they stand and the values name the
\* variables; three variables about the request are added.
ListenedVariables(trigger, payload) ==
    LET payload_mapping == trigger.payload_mapping
        hit == { f \in DOMAIN payload_mapping : f \in DOMAIN payload.items }
        Field(variable_name) ==
            CHOOSE f \in hit : Dotted(payload_mapping[f]) = variable_name
    IN  [ variable_name \in { Dotted(payload_mapping[f]) : f \in hit }
            |-> payload.items[Field(variable_name)] ]
        @@ ("webhook_payload" :> payload)
        @@ ("webhook_timestamp" :> Scalar("now"))
        @@ ("webhook_source" :> Scalar(trigger.name))

\* Task(..., workflow_id=...) inserted, then start_workflow on it by
\* "system" with the variables of the webhook.
TriggerWorkflow(trigger, workflow_variables) ==
    LET inserted == [NewTask EXCEPT !.workflow_id = trigger.workflow_id]
    IN  IF trigger.workflow_id \notin WorkflowIds
        THEN Outcome(inserted, "NotFound")
        ELSE LET wf == Workflows[trigger.workflow_id]
                 first_node == FirstNode(wf)
             IN  IF first_node = NoNode
                 THEN Outcome(inserted, "InvalidDefinition")
                 ELSE Outcome(Restart(inserted, trigger.workflow_id,
                                      StartedState(wf, first_node, "system",
                                                   workflow_variables)),
                              "ok")

ReceiveWebhook(trigger, payload) ==
    /\ ~task.exists
    /\ UNCHANGED <<exec, calls, sink>>
    /\ IF ~trigger.is_active
       THEN /\ result' = Result("webhook", "NotFound")
            /\ UNCHANGED task
       ELSE LET workflow_variables == ReceivedVariables(trigger.payload_mapping, payload)
            IN  IF workflow_variables = Raised
                THEN \* nothing catches it: 500 before the task is inserted
                     /\ result' = Result("webhook", "AttributeError")
                     /\ UNCHANGED task
                ELSE LET r == TriggerWorkflow(trigger, workflow_variables)
                     IN  /\ task' = r.task
                         /\ result' = Result("webhook",
                                             IF r.outcome = "ok"
                                             THEN Audited("ok", sink) ELSE r.outcome)

WebhookListener(trigger, payload) ==
    /\ ~task.exists
    /\ UNCHANGED <<exec, calls, sink>>
    /\ IF ~trigger.is_active
       THEN \* the 404 is raised inside the try and comes out as a 500
            /\ result' = Result("webhook_v1", "WebhookError")
            /\ UNCHANGED task
       ELSE LET r == TriggerWorkflow(trigger, ListenedVariables(trigger, payload))
            IN  /\ task' = r.task
                /\ result' = Result("webhook_v1",
                                    IF r.outcome = "ok"
                                    THEN Audited("ok", sink) ELSE "WebhookError")

\* A webhook makes the task, which users then move on.
NextWebhook ==
    \/ \E tr \in Triggers, p \in Payloads : ReceiveWebhook(tr, p)
    \/ \E tr \in Triggers, p \in Payloads : WebhookListener(tr, p)
    \/ \E u \in Users : Progress(u) /\ WithinBounds
    \/ \E s \in StepIds, u \in Users, r \in Reasons :
           RewindWorkflow(s, u, r) /\ WithinBounds

SpecWebhook == Init /\ [][NextWebhook]_vars

\* A task taken from start to its end: started once, on any definition
\* whose edges hold no cycle, then progressed and approved by any user, with
\* no rewind and no second start.  Such a run adds at most one row for an
\* arrival and one for an approval at each node, so the record needs no
\* bound here.
RunWorkflows == {"wfA", "wfB", "wfC", "wfL", "wfY", "wfN", "wfU", "wfT", "wfW"}

NextRun ==
    \/ \E u \in Users : CreateTask(u)
    \/ \E w \in RunWorkflows, u \in Users, iv \in InitialVariables :
           task.workflow_id = NoValue /\ StartWorkflow(w, u, iv)
    \/ \E u \in Users : Progress(u)
    \/ \E s \in StepIds, u \in Users : ApproveStep(s, u, "approve")

SpecRun == Init /\ [][NextRun]_vars

\* The requests keep coming: a progress request or an approval that can be
\* made is made in the end.
FairRun ==
    /\ SpecRun
    /\ WF_vars(\E u \in Users : Progress(u))
    /\ WF_vars(\E s \in StepIds, u \in Users : ApproveStep(s, u, "approve"))

----------------------------------------------------------------------------
\* Vocabulary of the properties.

Last(seq) == seq[Len(seq)]

IsPrefix(a, b) == Len(a) <= Len(b) /\ SubSeq(b, 1, Len(a)) = a

\* The node the first edge out of the task's current step leads to.
NextNode(t) ==
    FindNode(Workflows[t.workflow_id],
             NextStepId(Workflows[t.workflow_id], t.workflow_state.current_step))

Active(t) == t.exists /\ t.workflow_state.current_step # NoValue

HasPending(t, step_id, user) ==
    \E i \in 1..Len(t.workflow_state.pending_approvals) :
        /\ t.workflow_state.pending_approvals[i].step_id = step_id
        /\ t.workflow_state.pending_approvals[i].assigned_to = user

\* The task stands at an approval node that still has an unresolved
\* pending_approvals entry.
AtGate(t) ==
    /\ Active(t)
    /\ FindNode(Workflows[t.workflow_id], t.workflow_state.current_step).type = "approval"
    /\ \E u \in Users : HasPending(t, t.workflow_state.current_step, u)

AllFailed(e) == e.log # << >> /\ \A i \in 1..Len(e.log) : e.log[i] \in Errors

\* The state right after a run of the executor ended.
ExecEnded == result.op = "execute" /\ exec.pc = "done"

----------------------------------------------------------------------------
\* C1: in every reachable state of a task record, status = completed if and
\* only if current_step is null and step_history is non-empty.
CompletedIffFinished ==
    task.exists =>
        ( (task.status = "completed")
          <=> ( /\ task.workflow_state.current_step = NoValue
                /\ task.workflow_state.step_history # << >> ) )

\* C2: a progress call whose next node is an approval node makes that node
\* the current step, adds exactly one pending_approvals entry (that step,
\* assigned to the caller) and appends exactly one pending_approval row.
ProgressOntoApproval ==
    [][ result'.op = "progress" =>
        \A u \in Users :
          ( /\ Active(task)
            /\ NextNode(task).type = "approval"
            /\ Progress(u) )
          => LET ws == task.workflow_state
                 ws2 == task'.workflow_state
                 gate == NextNode(task).id
             IN  /\ ws2.current_step = gate
                 /\ Len(ws2.pending_approvals) = Len(ws.pending_approvals) + 1
                 /\ IsPrefix(ws.pending_approvals, ws2.pending_approvals)
                 /\ Last(ws2.pending_approvals).step_id = gate
                 /\ Last(ws2.pending_approvals).assigned_to = u
                 /\ Len(ws2.step_history) = Len(ws.step_history) + 1
                 /\ IsPrefix(ws.step_history, ws2.step_history)
                 /\ Last(ws2.step_history).step_id = gate
                 /\ Last(ws2.step_history).status = "pending_approval"
      ]_vars

\* C2 witness: progress has just landed on an approval node.
ProgressOntoApprovalReached ==
    /\ result = Result("progress", "ok")
    /\ Active(task)
    /\ task.workflow_state.step_history # << >>
    /\ Last(task.workflow_state.step_history).status = "pending_approval"
    /\ Last(task.workflow_state.step_history).step_id = task.workflow_state.current_step
    /\ \E u \in Users : HasPending(task, task.workflow_state.current_step, u)

\* C3: while the task stands at an approval node with an unresolved pending
\* approval, a progress call does not move current_step past that node.
GateHoldsProgress ==
    [][ result'.op = "progress" =>
        \A u \in Users :
          (AtGate(task) /\ Progress(u))
          => task'.workflow_state.current_step = task.workflow_state.current_step
      ]_vars

\* C4: approve_step with action approve on a matching pending approval
\* removes the entry and leaves current_step at the node after the approval
\* node, or null with status completed when that node has no outgoing edge.
ApproveAdvancesPastGate ==
    [][ result'.op = "approve_step" =>
        \A s \in StepIds, u \in Users :
          ( /\ task.exists
            /\ HasPending(task, s, u)
            /\ ApproveStep(s, u, "approve") )
          => LET after == NextStepId(Workflows[task.workflow_id], s)
             IN  /\ ~HasPending(task', s, u)
                 /\ after # NoValue => task'.workflow_state.current_step = after
                 /\ after = NoValue =>
                        /\ task'.workflow_state.current_step = NoValue
                        /\ task'.status = "completed"
      ]_vars

\* C5: approve_step with action reject on a matching pending approval sets
\* current_step to null and the task status to on_hold.
RejectHoldsTask ==
    [][ result'.op = "approve_step" =>
        \A s \in StepIds, u \in Users :
          ( /\ task.exists
            /\ HasPending(task, s, u)
            /\ ApproveStep(s, u, "reject") )
          => /\ task'.workflow_state.current_step = NoValue
             /\ task'.status = "on_hold"
      ]_vars

\* C6: approve_step fails with ApprovalNotFound whenever no pending entry
\* matches both the step_id and the actor of the call, and the task record
\* is then left unchanged.
ApprovalNotFoundLeavesTask ==
    [][ result'.op = "approve_step" =>
        \A s \in StepIds, u \in Users, a \in ApprovalActions :
          ( /\ task.exists
            /\ ~HasPending(task, s, u)
            /\ ApproveStep(s, u, a) )
          => /\ result' = Result("approve_step", "ApprovalNotFound")
             /\ task' = task
      ]_vars

\* C6 witness: an approve_step was refused although the step it named has a
\* pending approval, assigned to someone else.
ApprovalNotFoundReached ==
    /\ result = Result("approve_step", "ApprovalNotFound")
    /\ task.exists
    /\ \E u \in Users : HasPending(task, task.workflow_state.current_step, u)

\* C7: once the executor has suspended a task, a progress call fails and
\* leaves the task record unchanged.
SuspendedBlocksProgress ==
    [][ result'.op = "progress" =>
        \A u \in Users :
          (task.exists /\ task.status = "suspended" /\ Progress(u))
          => /\ result'.outcome \notin {"ok", "completed"}
             /\ task' = task
      ]_vars

\* C8: when every attempt fails and the node has no on_error_next_node, the
\* executor has made exactly max_attempts attempts, the task is suspended
\* and the caller gets Suspended.
ExhaustedSuspends ==
    ( /\ ExecEnded
      /\ AllFailed(exec)
      /\ exec.on_error_next_node = NoValue )
    => /\ Len(exec.log) = exec.max_attempts
       /\ exec.returned.outcome = "Suspended"
       /\ exec.returned.error = Last(exec.log)
       /\ task.status = "suspended"

\* C8 witness: two failed attempts of a webhook_action node with
\* max_attempts = 2 and no error route.
ExhaustedSuspendsReached ==
    /\ ExecEnded
    /\ exec.type = "webhook_action"
    /\ exec.max_attempts = 2
    /\ exec.on_error_next_node = NoValue
    /\ Len(exec.log) = 2
    /\ AllFailed(exec)
    /\ task.status = "suspended"

\* C9: when every attempt fails and on_error_next_node is set, the executor
\* returns ErrorRouted with that node id and the error, and leaves the
\* task's status as it was.
ExhaustedRoutes ==
    [][ ( /\ exec.pc = "attempting"
          /\ exec'.pc = "done"
          /\ AllFailed(exec')
          /\ exec.on_error_next_node # NoValue )
        => /\ exec'.returned.outcome = "ErrorRouted"
           /\ exec'.returned.error_route = exec.on_error_next_node
           /\ exec'.returned.error = Last(exec'.log)
           /\ task'.status = task.status
      ]_vars

\* C9 witness: a run ended by routing to the error node, the task still in
\* progress.
ExhaustedRoutesReached ==
    /\ ExecEnded
    /\ AllFailed(exec)
    /\ exec.returned.outcome = "ErrorRouted"
    /\ exec.returned.error_route = "n1"
    /\ task.status = "in_progress"

\* C10: the wait after failed attempt k < max_attempts is
\* delay_seconds * 2^(k-1) with backoff and delay_seconds without, no wait
\* follows the final attempt, and max_attempts = 3, delay_seconds = 10 gives
\* the waits 10, 20 with backoff and 10, 10 without.
RetryWaits ==
    /\ \A k \in 1..Len(exec.waits) :
          /\ k < exec.max_attempts
          /\ exec.waits[k] = IF exec.backoff
                             THEN exec.delay_seconds * 2 ^ (k - 1)
                             ELSE exec.delay_seconds
    /\ exec.pc \in {"attempting", "sleeping"} => Len(exec.waits) = Len(exec.log)
    /\ (exec.pc = "done" /\ exec.log # << >>) => Len(exec.waits) = Len(exec.log) - 1
    /\ ( /\ exec.pc = "done"
         /\ AllFailed(exec)
         /\ exec.max_attempts = 3
         /\ exec.delay_seconds = 10 )
       => exec.waits = IF exec.backoff THEN << 10, 20 >> ELSE << 10, 10 >>

\* C10 witness: three failed attempts with delay_seconds = 10 and backoff.
RetryWaitsReached ==
    /\ exec.pc = "done"
    /\ AllFailed(exec)
    /\ exec.max_attempts = 3
    /\ exec.backoff
    /\ exec.waits = << 10, 20 >>

\* C11: the executor makes at most max_attempts attempts, numbered 1, 2, ...
\* in order, and a successful attempt is the last one: the run ends with its
\* result and no attempt follows it.
AttemptsInOrder ==
    /\ Len(exec.log) <= exec.max_attempts
    /\ exec.pc = "attempting" => exec.attempt = Len(exec.log) + 1
    /\ exec.pc = "sleeping" => exec.attempt = Len(exec.log)
    /\ \A i \in 1..Len(exec.log) :
          exec.log[i] = "ok" =>
              /\ i = Len(exec.log)
              /\ exec.pc = "done"
              /\ exec.returned.outcome = "Success"

\* C11 witness: the second of three allowed attempts succeeded and the run
\* ended there.
AttemptsInOrderReached ==
    /\ ExecEnded
    /\ exec.max_attempts = 3
    /\ Len(exec.log) = 2
    /\ exec.log[1] \in Errors
    /\ exec.log[2] = "ok"
    /\ exec.returned.outcome = "Success"

----------------------------------------------------------------------------
\* Rewind, through the engine and through the /v1 endpoint

\* A step of either rewind that reported success.
RewindOk ==
    /\ result'.op \in {"rewind", "rewind_v1"}
    /\ result'.outcome = "ok"

\* C12: every successful rewind makes rewind_history one entry longer; the
\* new entry holds the whole workflow_state from before the rewind with the
\* actor and the reason, and the earlier entries are kept as they were.
RewindKeepsSnapshot ==
    [][ RewindOk =>
          LET before == task.workflow_state.rewind_history
              after  == task'.workflow_state.rewind_history
          IN  /\ Len(after) = Len(before) + 1
              /\ IsPrefix(before, after)
              /\ Last(after).current_state = task.workflow_state
              /\ Last(after).rewound_by \in Users
              /\ Last(after).reason \in Reasons
      ]_vars

\* C13: after a successful rewind step_history is the earlier step_history
\* cut right after an entry of the target, followed by one new row with
\* status rewound for the target.
RewindTruncatesHistory ==
    [][ RewindOk =>
          LET before == task.workflow_state.step_history
              after  == task'.workflow_state.step_history
              target == task'.workflow_state.current_step
          IN  \E i \in TargetIndexes(before, target) :
                /\ Len(after) = i + 1
                /\ SubSeq(after, 1, i) = SubSeq(before, 1, i)
                /\ after[i + 1].step_id = target
                /\ after[i + 1].status = "rewound"
      ]_vars

\* C14: a successful rewind sets current_step to the target and status to
\* in_progress, empties pending_approvals and leaves the variables alone.
RewindResets ==
    [][ RewindOk =>
          \A s \in StepIds, u \in Users, r \in Reasons :
            ( RewindWorkflow(s, u, r) \/ RewindEndpoint(s, u, r) )
            => /\ task'.workflow_state.current_step = s
               /\ task'.status = "in_progress"
               /\ task'.workflow_state.pending_approvals = << >>
               /\ task'.workflow_state.variables = task.workflow_state.variables
      ]_vars

\* C15: on an existing task, rewind to a step that step_history does not
\* hold fails and leaves the record as it was (an empty history, which holds
\* no step, counts as such a failure), and rewind to a step that
\* step_history holds succeeds, whatever completed_steps and
\* pending_approvals contain.
RewindTargetCheck ==
    [][ result'.op \in {"rewind", "rewind_v1"} =>
          \A s \in StepIds, u \in Users, r \in Reasons :
            ( /\ task.exists
              /\ ( RewindWorkflow(s, u, r) \/ RewindEndpoint(s, u, r) ) )
            => IF TargetIndexes(task.workflow_state.step_history, s) = {}
               THEN /\ result'.outcome \in {"TargetStepNotFound", "NoHistory"}
                    /\ task' = task
               ELSE result'.outcome = "ok"
      ]_vars

----------------------------------------------------------------------------
\* Failures

\* A step of a state-machine operation that reported a failure.
OperationFailed ==
    /\ result'.op \in {"start", "progress", "approve_step", "rewind", "rewind_v1"}
    /\ result'.outcome \notin {"ok", "completed"}

\* C17: a state-machine operation that fails leaves the task record exactly
\* as it was before the call; an approve_step whose follow-on progress fails
\* has removed no pending approval and appended no history row.
FailureLeavesTask ==
    [][ OperationFailed => task' = task ]_vars

----------------------------------------------------------------------------
\* Start

\* A step of start_workflow that reported success.
StartOk == result' = Result("start", "ok")

\* C18: a successful start leaves the task in_progress, at the start node,
\* with a step_history of one started row for that node, no pending
\* approvals, no completed steps, and the definition's variables overridden
\* by initial_variables.
StartInitialises ==
    [][ StartOk =>
          \A w \in WorkflowIds, u \in Users, iv \in InitialVariables :
            ( task.exists /\ StartWorkflow(w, u, iv) )
            => LET wf == Workflows[w]
                   ws == task'.workflow_state
               IN  /\ task'.status = "in_progress"
                   /\ \E i \in 1..Len(wf.nodes) :
                        /\ wf.nodes[i].id = ws.current_step
                        /\ Qualifies(wf, wf.nodes[i])
                        /\ \A j \in 1..(i - 1) : ~Qualifies(wf, wf.nodes[j])
                   /\ Len(ws.step_history) = 1
                   /\ ws.step_history[1].step_id = ws.current_step
                   /\ ws.step_history[1].status = "started"
                   /\ ws.pending_approvals = << >>
                   /\ ws.completed_steps = << >>
                   /\ DOMAIN ws.variables = (DOMAIN wf.variables) \cup (DOMAIN iv)
                   /\ \A k \in DOMAIN ws.variables :
                        ws.variables[k] = IF k \in DOMAIN iv THEN iv[k]
                                          ELSE wf.variables[k]
      ]_vars

\* C18 witness: wfA, whose default amount is 100, started with amount 6000.
StartInitialisesReached ==
    /\ result = Result("start", "ok")
    /\ task.exists
    /\ task.workflow_id = "wfA"
    /\ task.status = "in_progress"
    /\ task.workflow_state.variables = ("amount" :> 6000)
    /\ Len(task.workflow_state.step_history) = 1

\* C19: start fails with NotFound for a workflow id with no definition and
\* with InvalidDefinition for a definition none of whose nodes qualifies as
\* a start node (one with no nodes included); the task is left as it was.
StartRejects ==
    [][ result'.op = "start" =>
          \A w \in WorkflowIds \cup {MissingWorkflow}, u \in Users,
             iv \in InitialVariables :
            StartWorkflow(w, u, iv)
            => IF w \notin WorkflowIds
               THEN /\ result'.outcome = "NotFound"
                    /\ task' = task
               ELSE ( \A i \in 1..Len(Workflows[w].nodes) :
                         /\ Workflows[w].nodes[i].id \in Incoming(Workflows[w])
                         /\ Workflows[w].nodes[i].type # "task" )
                    => /\ result'.outcome = "InvalidDefinition"
                       /\ task' = task
      ]_vars

\* C19 witness: a start was turned down for want of a start node while the
\* task was part-way through wfA.
StartRejectsReached ==
    /\ result = Result("start", "InvalidDefinition")
    /\ task.exists
    /\ task.workflow_id = "wfA"
    /\ task.workflow_state.current_step = "a1"

\* C20: start on a task whose workflow was already started gives the record
\* that the same start gives on a newly created task, whatever the task held
\* before.
RestartReplaces ==
    [][ StartOk =>
          \A w \in WorkflowIds, u \in Users, iv \in InitialVariables :
            ( task.exists /\ task.workflow_id # NoValue /\ StartWorkflow(w, u, iv) )
            => task' = Restart(NewTask, w,
                               StartedState(Workflows[w], FirstNode(Workflows[w]),
                                            u, iv))
      ]_vars

\* C20 witness: the task, which began in wfA, now stands at the start of wfB.
RestartReplacesReached ==
    /\ result = Result("start", "ok")
    /\ task.workflow_id = "wfB"
    /\ task.workflow_state.current_step = "n1"
    /\ task.workflow_state.rewind_history = << >>

----------------------------------------------------------------------------
\* Concurrent requests

\* C16: two state-machine operations made at once on one task leave the
\* record that running them one after the other, in one order or the other,
\* leaves; here the two are progress calls.
Serializable ==
    ( Len(calls.c) = 2 /\ Quiet )
    => LET a == calls.c[1].user
           b == calls.c[2].user
       IN  \/ task = ProgressWorkflow(ProgressWorkflow(calls.base, a).task, b).task
           \/ task = ProgressWorkflow(ProgressWorkflow(calls.base, b).task, a).task

----------------------------------------------------------------------------
\* From node to node

\* A definition of two task nodes joined by one edge.
Linear2(wf) ==
    /\ Len(wf.nodes) = 2
    /\ wf.nodes[1].type = "task"
    /\ wf.nodes[2].type = "task"
    /\ wf.edges = << Edge(wf.nodes[1].id, wf.nodes[2].id) >>

\* C21: on a two-task linear workflow the first progress call after start
\* leaves status completed, current_step null and two step_history rows.
LinearCompletesInOne ==
    [][ \A u \in Users :
          ( /\ task.exists
            /\ result = Result("start", "ok")
            /\ Linear2(Workflows[task.workflow_id])
            /\ Progress(u) )
          => /\ task'.status = "completed"
             /\ task'.workflow_state.current_step = NoValue
             /\ Len(task'.workflow_state.step_history) = 2
      ]_vars

\* Labels that read as yes and as no, whatever their case.
YesLabels == {"Yes", "yes", "YES", "True", "true"}
NoLabels == {"No", "no", "NO", "False", "false"}

\* The edges out of a condition node whose label answers the condition as
\* the variables decide it.
BranchIndexes(wf, node, variables) ==
    { i \in OutgoingIndexes(wf, node.id) :
        /\ "label" \in DOMAIN wf.edges[i]
        /\ wf.edges[i].label \in
             ( IF variables[node.condition.variable] > node.condition.greater_than
               THEN YesLabels ELSE NoLabels ) }

\* C26: when the node after current_step is a condition node, progress
\* moves to the target of its Yes edge if the condition holds for the task's
\* variables and to the target of its No edge if not, in whatever order the
\* two edges are listed.
ConditionRouting ==
    [][ \A u \in Users :
          ( /\ Active(task)
            /\ NextNode(task).type = "condition"
            /\ Progress(u) )
          => LET wf == Workflows[task.workflow_id]
                 branches == BranchIndexes(wf, NextNode(task),
                                           task.workflow_state.variables)
             IN  /\ branches # {}
                 /\ task'.workflow_state.current_step = wf.edges[Min(branches)].target
      ]_vars

\* C28: current_step is null or the id of a node of the definition the
\* task's workflow_id names.
CurrentStepDeclared ==
    ( task.exists /\ task.workflow_state.current_step # NoValue )
    => NodeIndexes(Workflows[task.workflow_id], task.workflow_state.current_step) # {}

----------------------------------------------------------------------------
\* Progress

\* A step of progress_workflow.
Progressed == result'.op = "progress"

\* C22: progress from a step with no outgoing edge sets status completed
\* and current_step null, and on a task that stands completed no progress
\* call succeeds: it fails and leaves the record alone.
ProgressCompletes ==
    [][ Progressed =>
          \A u \in Users :
            /\ ( /\ Active(task)
                 /\ OutgoingIndexes(Workflows[task.workflow_id],
                                    task.workflow_state.current_step) = {}
                 /\ Progress(u) )
               => /\ task'.status = "completed"
                  /\ task'.workflow_state.current_step = NoValue
            /\ ( /\ task.exists
                 /\ task.status = "completed"
                 /\ Progress(u) )
               => /\ result'.outcome \notin {"ok", "completed"}
                  /\ task' = task
      ]_vars

\* C22 witness: a progress call was turned down on a task that had run
\* through to its end.
ProgressCompletesReached ==
    /\ result = Result("progress", "NoActiveWorkflow")
    /\ task.status = "completed"
    /\ task.workflow_state.current_step = NoValue
    /\ task.workflow_state.step_history # << >>

\* C23: progress fails with NotFound when there is no task and with
\* NoActiveWorkflow when the task's current_step is null, and writes nothing
\* in either case.
ProgressRejects ==
    [][ Progressed =>
          \A u \in Users :
            Progress(u)
            => /\ ~task.exists
                  => /\ result'.outcome = "NotFound"
                     /\ task' = task
               /\ ( task.exists /\ task.workflow_state.current_step = NoValue )
                  => /\ result'.outcome = "NoActiveWorkflow"
                     /\ task' = task
      ]_vars

\* C23 witness: progress was refused on a task that was rewound and then
\* ran to its end again.
ProgressRejectsReached ==
    /\ result = Result("progress", "NoActiveWorkflow")
    /\ task.exists
    /\ task.workflow_state.current_step = NoValue
    /\ \E i \in 1..Len(task.workflow_state.step_history) :
          task.workflow_state.step_history[i].status = "rewound"

\* C24: when the next node exists and is not an approval, progress makes it
\* the current step, appends one step_history row with status started for
\* it and leaves pending_approvals as they were.
ProgressOntoStep ==
    [][ Progressed =>
          \A u \in Users :
            ( /\ Active(task)
              /\ NextNode(task) # NoNode
              /\ NextNode(task).type # "approval"
              /\ Progress(u) )
            => LET before == task.workflow_state.step_history
                   after  == task'.workflow_state.step_history
               IN  /\ task'.workflow_state.current_step = NextNode(task).id
                   /\ Len(after) = Len(before) + 1
                   /\ IsPrefix(before, after)
                   /\ Last(after).step_id = NextNode(task).id
                   /\ Last(after).status = "started"
                   /\ task'.workflow_state.pending_approvals =
                          task.workflow_state.pending_approvals
      ]_vars

\* C24 witness: the task moved from the gate a1 on to the task n2 with the
\* approval for a1 still pending.
ProgressOntoStepReached ==
    /\ result = Result("progress", "ok")
    /\ task.workflow_id = "wfA"
    /\ task.workflow_state.current_step = "n2"
    /\ Last(task.workflow_state.step_history).status = "started"
    /\ task.workflow_state.pending_approvals # << >>

\* C25: every successful progress call appends one completed_steps entry,
\* for the step that was current before the call, whichever branch it takes.
ProgressRecordsCompleted ==
    [][ ( Progressed /\ result'.outcome \in {"ok", "completed"} )
        => task'.workflow_state.completed_steps =
               Append(task.workflow_state.completed_steps,
                      task.workflow_state.current_step)
      ]_vars

\* C27: over every transition of the state machine the step_history before
\* is a prefix of the step_history after.
HistoryAppendOnly ==
    [][ IsPrefix(task.workflow_state.step_history,
                 task'.workflow_state.step_history) ]_vars

----------------------------------------------------------------------------
\* Audit sink and executor outcomes

\* C29: with the audit collection out of reach every operation and every
\* executor attempt ends as it does without the audit: no call ends in an
\* error raised by the audit write, and progress leaves the record and the
\* answer that progress_workflow computes from the task alone.
AuditFailureHarmless ==
    [][ sink = "down" =>
          /\ result'.outcome # "AuditError"
          /\ exec'.returned.outcome # "AuditError"
          /\ \A u \in Users :
               Progress(u) =>
                 /\ task' = ProgressWorkflow(task, u).task
                 /\ result'.outcome = ProgressWorkflow(task, u).outcome
      ]_vars

\* C29 witness: with the audit collection out of reach the task was
\* approved past its gate and a node run ended in Success.
AuditFailureHarmlessReached ==
    /\ sink = "down"
    /\ result = Result("execute", "Success")
    /\ exec.returned.outcome = "Success"
    /\ task.workflow_state.current_step = "n2"
    /\ \E i \in 1..Len(task.workflow_state.step_history) :
          task.workflow_state.step_history[i].status = "approve"

\* C30: a run of the executor that has ended has ended in Success,
\* ErrorRouted or Suspended, for every retry policy a node can carry.
ExecutorEndsWithOutcome ==
    exec.pc = "done" => exec.returned.outcome \in {"Success", "ErrorRouted", "Suspended"}

----------------------------------------------------------------------------
\* Start node

\* C31: start makes current_step the first node, in the order of the
\* definition, that has no incoming edge or is of type task: no node before
\* it is either, and a task counts whatever edges lead to it.
StartSelectsFirst ==
    [][ StartOk =>
          \A w \in WorkflowIds, u \in Users, iv \in InitialVariables :
            ( task.exists /\ StartWorkflow(w, u, iv) )
            => LET wf == Workflows[w]
                   targets == { wf.edges[e].target : e \in 1..Len(wf.edges) }
                   Fits(n) == n.id \notin targets \/ n.type = "task"
               IN  \E i \in 1..Len(wf.nodes) :
                     /\ wf.nodes[i].id = task'.workflow_state.current_step
                     /\ Fits(wf.nodes[i])
                     /\ \A j \in 1..(i - 1) : ~Fits(wf.nodes[j])
      ]_vars

\* C31 witness: wfT started at its task n1, which an edge leads to, past the
\* approval listed before it and ahead of the task n3 that nothing leads to.
StartSelectsFirstReached ==
    /\ result = Result("start", "ok")
    /\ task.exists
    /\ task.workflow_id = "wfT"
    /\ task.workflow_state.current_step = "n1"

----------------------------------------------------------------------------
\* C33: when progress moves the task onto a webhook_action or ai_worker
\* node, the executor is run for that node (and what it returns reaches the
\* task's variables and current_step).
ProgressRunsExecutor ==
    [][ \A u \in Users :
          ( /\ Active(task)
            /\ NextNode(task).type \in SideEffectTypes
            /\ Progress(u)
            /\ result' = Result("progress", "ok") )
          => /\ exec'.node = NextNode(task).id
             /\ exec'.pc # "idle"
      ]_vars

----------------------------------------------------------------------------
\* C34: of two approve_step calls for the same pending approval that run at
\* the same time, one succeeds and the other ends with ApprovalNotFound: the
\* approval leaves exactly one history row of its action.
StatusRows(step_history, status) ==
    Cardinality({ i \in 1..Len(step_history) : step_history[i].status = status })

OneApprovalWins ==
    ( /\ Len(calls.c) = 2
      /\ Quiet
      /\ calls.c[1].op = "approve_step" )
    => /\ { calls.c[1].outcome, calls.c[2].outcome } = { "ok", "ApprovalNotFound" }
       /\ StatusRows(task.workflow_state.step_history, calls.c[1].action)
            = StatusRows(calls.base.workflow_state.step_history, calls.c[1].action) + 1

----------------------------------------------------------------------------
\* C35: a successful approve_step removes from pending_approvals only the
\* entry of (step_id, actor) and appends exactly one history row whose status
\* is the action; the entries of other actors, those of the same step
\* included, stay in place.
ApproveRemovesOnlyMatched ==
    [][ \A s \in StepIds, u \in Users, a \in ApprovalActions :
          ( /\ task.exists
            /\ ApproveStep(s, u, a)
            /\ result' = Result("approve_step", "ok") )
          => LET Others(appr) == ~ApprovalMatches(appr, s, u)
             IN  /\ IsPrefix(SelectSeq(task.workflow_state.pending_approvals, Others),
                             SelectSeq(task'.workflow_state.pending_approvals, Others))
                 /\ StatusRows(task'.workflow_state.step_history, a)
                      = StatusRows(task.workflow_state.step_history, a) + 1
      ]_vars

----------------------------------------------------------------------------
\* C36: in every reachable state every pending_approvals entry is for the
\* task's current_step and no two entries share a step_id.
PendingAtCurrentStep ==
    task.exists =>
      LET pending == task.workflow_state.pending_approvals
      IN  /\ \A i \in 1..Len(pending) :
                pending[i].step_id = task.workflow_state.current_step
          /\ \A i, j \in 1..Len(pending) :
                pending[i].step_id = pending[j].step_id => i = j

----------------------------------------------------------------------------
\* C38: the engine's rewind_workflow and the /v1 rewind endpoint are
\* equivalent: on the same task, target step, actor and reason they both
\* fail or both succeed leaving the same record.
RewindsAgree ==
    \A s \in StepIds, u \in Users, r \in Reasons :
        LET engine == RewindEngine(task, s, u, r)
            v1 == RewindV1(task, s, u, r)
        IN  /\ (engine.outcome = "ok") <=> (v1.outcome = "ok")
            /\ engine.outcome = "ok" => engine.task = v1.task

----------------------------------------------------------------------------
\* C39: a start that returns a workflow_state has persisted it: the record
\* exists and holds the workflow_id, the workflow_state and the status
\* in_progress that start built; start on a task_id without a record does
\* not report success.
StartPersists ==
    [][ \A w \in WorkflowIds, u \in Users, iv \in InitialVariables :
          ( StartWorkflow(w, u, iv) /\ StartOk )
          => /\ task'.exists
             /\ task'.workflow_id = w
             /\ task'.status = "in_progress"
             /\ task'.workflow_state =
                  StartedState(Workflows[w], FirstNode(Workflows[w]), u, iv)
      ]_vars

----------------------------------------------------------------------------
\* From start to completion

RECURSIVE Closure(_, _)
\* The steps that edges lead to from the steps of S, S included.
Closure(wf, S) ==
    LET T == S \cup { wf.edges[i].target :
                        i \in { j \in 1..Len(wf.edges) : wf.edges[j].source \in S } }
    IN  IF T = S THEN S ELSE Closure(wf, T)

\* No step leads back to itself.
Acyclic(wf) ==
    \A i \in 1..Len(wf.edges) :
        wf.edges[i].source \notin Closure(wf, {wf.edges[i].target})

RECURSIVE PathLen(_, _)
\* Nodes on the path that the first edges trace from step_id on.
PathLen(wf, step_id) ==
    IF step_id = NoValue THEN 0
    ELSE 1 + PathLen(wf, NextStepId(wf, step_id))

Completed(t) ==
    t.exists /\ t.status = "completed" /\ t.workflow_state.current_step = NoValue

\* C37: on a definition whose edges hold no cycle, every successful progress
\* or approval of a started task takes it one node further along the path
\* of first edges, so the task is through after as many of them as the path
\* has nodes; and when progress and approval requests keep being made the
\* task reaches status completed with current_step null.
RunCompletes ==
    /\ [][ ( /\ Active(task)
             /\ Acyclic(Workflows[task.workflow_id])
             /\ result'.op \in {"progress", "approve_step"}
             /\ result'.outcome \in {"ok", "completed"} )
           => /\ PathLen(Workflows[task.workflow_id], task'.workflow_state.current_step)
                   = PathLen(Workflows[task.workflow_id],
                             task.workflow_state.current_step) - 1
              /\ task'.workflow_state.current_step = NoValue => Completed(task')
       ]_vars
    /\ ( Active(task) /\ Acyclic(Workflows[task.workflow_id]) ) ~> Completed(task)

\* C37 witness: a task on the gated definition wfA is through, its gate
\* approved on the way.
RunCompletesReached ==
    /\ Completed(task)
    /\ task.workflow_id = "wfA"
    /\ \E i \in 1..Len(task.workflow_state.step_history) :
          task.workflow_state.step_history[i].status = "approve"

----------------------------------------------------------------------------
\* Inbound triggers

RECURSIVE Lookup(_, _)
\* Sequential key lookup: the value at the end of the path, Null as soon as
\* a segment is not there to be looked up.
Lookup(value, fields) ==
    IF fields = << >> THEN value
    ELSE IF value.kind # "dict" \/ Head(fields) \notin DOMAIN value.items THEN Null
    ELSE Lookup(value.items[Head(fields)], Tail(fields))

\* The payload_mapping targets whose path resolves, each with its value.
Resolved(trigger, payload) ==
    LET Value(t) == Lookup(payload, Split(trigger.payload_mapping[t]))
    IN  [ t \in { v \in DOMAIN trigger.payload_mapping : Value(v) # Null } |-> Value(t) ]

\* C32: on an inbound trigger the initial_variables that start receives are
\* exactly the payload_mapping targets whose dotted path resolves through
\* every segment of the payload, each with the value found; a path with an
\* absent segment is left out and does not make the trigger fail.
TriggerMapsPayload ==
    [][ \A tr \in Triggers, p \in Payloads :
          ( /\ tr.is_active
            /\ ReceiveWebhook(tr, p) \/ WebhookListener(tr, p) )
          => /\ result'.outcome = "ok"
             /\ task'.exists
             /\ task'.workflow_state.variables = Resolved(tr, p)
      ]_vars

====
